---- MODULE Spec2Model ----
(***************************************************************************)
(* Model of DouyinChatWebSocketClient (src/src/websocket.py): the Session  *)
(* that owns one websocket transport and two asyncio tasks, the Heartbeat  *)
(* Task (_send_heartbeat) and the Receive Task (_receive_loop), together   *)
(* with the caller that opens and closes it (src/src/main.py).             *)
(*                                                                         *)
(* asyncio runs one coroutine at a time: a task keeps the event loop from  *)
(* the moment it is resumed until its next await that really suspends.     *)
(* `cur` names the task that holds the loop ("none" when every task is     *)
(* suspended); an action of a suspended task needs cur = "none".           *)
(* task.cancel() only records the request (cancelReq); the CancelledError  *)
(* is thrown into the task when it is next resumed, or at its next real    *)
(* suspension when the task cancelled itself.                              *)
(*                                                                         *)
(* The transport is an aiohttp ClientWebSocketResponse.  What the code     *)
(* relies on is modelled where the code calls it: `closed` is set by the   *)
(* first close() before anything is awaited, a close() of a closed         *)
(* transport returns at once, a write on a closed transport raises, and    *)
(* iteration ends on a CLOSE / CLOSING / CLOSED message.                   *)
(***************************************************************************)
EXTENDS Naturals, Integers, Sequences, FiniteSets, TLC

\* ------------------------------------------------------------- bounds
\* the length of the window the heartbeat loop is watched for, in time units
MaxTime == 24
\* the longest a ping stays suspended in the transport's drain
MaxLatency == 2
\* inbound transport messages the peer delivers in one run
MaxInbound == 2
\* SubMessages in one Envelope
MaxMsgs == 2
\* close() calls the owner of the Session makes
MaxClose == 2

\* ------------------------------------------------------------- data
Procs == {"main", "hb", "rx"}
\* the two background tasks, in the order new() appends them to _tasks
TaskOrder == <<"hb", "rx">>
Tasks == {TaskOrder[i] : i \in 1..Len(TaskOrder)}

\* the dispatch table of _handle_binary: method tag -> handler
Handlers ==
    { "WebcastChatMessage", "WebcastGiftMessage", "WebcastLikeMessage",
      "WebcastMemberMessage", "WebcastSocialMessage",
      "WebcastRoomUserSeqMessage", "WebcastFansclubMessage",
      "WebcastControlMessage", "WebcastEmojiChatMessage",
      "WebcastRoomStatsMessage", "WebcastRoomMessage",
      "WebcastRoomRankMessage", "WebcastRoomStreamAdaptationMessage" }

\* handlers defined with `async def`: asyncio.iscoroutinefunction is true
AsyncHandlers == {"WebcastControlMessage"}

\* the status of a ControlMessage that ends the live room
StatusEnded == 3

\* SubMessages the peer may put in an Envelope.  `valid` says whether the
\* handler's parse of the payload (and what it does with the fields, such
\* as the gender table lookup of _parseMemberMsg) succeeds; `status` is
\* the status field of a ControlMessage payload (0 for other methods).
SubMessages ==
    { [method |-> "WebcastMemberMessage", valid |-> TRUE, status |-> 0],
      [method |-> "WebcastMemberMessage", valid |-> FALSE, status |-> 0],
      [method |-> "WebcastNewFeatureMessage", valid |-> FALSE, status |-> 0],
      [method |-> "WebcastControlMessage", valid |-> TRUE, status |-> 2],
      [method |-> "WebcastControlMessage", valid |-> TRUE, status |-> StatusEnded] }

RECURSIVE SeqsUpTo(_, _)
SeqsUpTo(S, n) ==
    IF n = 0 THEN {<<>>}
    ELSE LET shorter == SeqsUpTo(S, n - 1)
         IN  shorter \cup {Append(s, x) : s \in {t \in shorter : Len(t) = n - 1}, x \in S}

LogIds == {7, 8}
\* internal_ext strings, as sequences of code points: "a" and U+00E9
InternalExts == {<<97>>, <<233>>}

\* str.encode("utf-8"), for code points below U+0800
RECURSIVE Utf8Encode(_)
Utf8Encode(s) ==
    IF s = <<>> THEN <<>>
    ELSE LET c == Head(s)
         IN  (IF c < 128 THEN <<c>>
              ELSE <<192 + (c \div 64), 128 + (c % 64)>>) \o Utf8Encode(Tail(s))

\* What PushFrame().parse / gzip.decompress / Response().parse make of the
\* bytes of a binary message: "ok", or the stage that raises.
DecodeResults == {"ok", "bad_frame", "bad_gzip", "bad_envelope"}

\* Inbound transport messages: aiohttp WSMessage, by msg.type
BinaryOk ==
    [type : {"BINARY"}, decode : {"ok"}, log_id : LogIds, need_ack : BOOLEAN,
     internal_ext : InternalExts, messages_list : SeqsUpTo(SubMessages, MaxMsgs)]
BinaryBad ==
    [type : {"BINARY"}, decode : DecodeResults \ {"ok"}, log_id : {7},
     need_ack : {FALSE}, internal_ext : {<<97>>}, messages_list : {<<>>}]
NonBinary ==
    [type : {"TEXT", "CLOSE", "ERROR"}, decode : {"ok"}, log_id : {7},
     need_ack : {FALSE}, internal_ext : {<<97>>}, messages_list : {<<>>}]
Inbound == BinaryOk \cup BinaryBad \cup NonBinary

NoFrame ==
    [type |-> "NONE", decode |-> "ok", log_id |-> 7, need_ack |-> FALSE,
     internal_ext |-> <<97>>, messages_list |-> <<>>]

\* ------------------------------------------------------------- state
VARIABLES
    pc,            \* where each coroutine stands
    cur,           \* the coroutine that holds the event loop, or "none"
    tasks,         \* Session._tasks
    ws_closed,     \* _ws_session.closed
    conn,          \* the connection under _ws_session: "none", "up", "down"
    cancelReq,     \* task.cancel() requested and not yet delivered
    frame,         \* the inbound message the Receive Task is handling
    pending,       \* SubMessages of `frame` not yet looked at (the for loop)
    nIn,           \* inbound messages delivered so far
    extCloses,     \* close() calls begun by the owner
    \* what an instrumented transport double and a capturing log would record
    acks,          \* ack frames handed to send_bytes for `frame`
    invoked,       \* handlers invoked for `frame`, in order
    errs,          \* errors logged by the dispatch loop for `frame`
    looped,        \* the for loop over `frame`'s SubMessages was entered
    closeCalls,    \* Session.close() calls begun
    closeReturned, \* Session.close() calls that returned to their caller
    handshakes,    \* closing handshakes begun on the transport
    callNo,        \* the number of the close() call each caller is in
    lateHandshake, \* a handshake was begun by a close() that was not the first
    lateIO,        \* a ping, ack or read happened after a close() returned
    selfClosedAt,  \* nIn when the control handler called close(), else 0
    hbErr,         \* the Heartbeat Task logged "Heartbeat error"
    raisedAt,      \* nIn when a handler first raised, else 0
    closedPing,    \* a ping was handed to a transport that reported closed
    hbCancelledAt, \* where the Heartbeat Task got its CancelledError, or "none"
    hbFrames,      \* the distinct frames the Heartbeat Task built for its pings
    \* the parts of the program checked on their own
    clock,         \* the heartbeat loop against a clock: time, timer, pings sent
    codec,         \* a frame on its way through SerializeToString and parse
    prog,          \* main.py: ntfy_listener, main_task and the trigger event
    room,          \* liveroom.py: one call of DoyinLiveRoom.new
    series         \* extract_and_visualize_log_data.py: one call of interpolate_data

sessionVars ==
    <<pc, cur, tasks, ws_closed, conn, cancelReq, frame, pending, nIn,
      extCloses, acks, invoked, errs, looped, closeCalls, closeReturned, handshakes,
      callNo, lateHandshake, lateIO, selfClosedAt, hbErr, raisedAt, closedPing,
      hbCancelledAt, hbFrames>>

progVars == <<prog, room, series>>

auxVars == <<clock, codec, progVars>>

vars == <<sessionVars, auxVars>>

wsVars == <<ws_closed, conn>>
frameVars == <<frame, pending, nIn, acks, invoked, errs, looped>>
closeVars ==
    <<extCloses, closeCalls, closeReturned, handshakes, callNo,
      lateHandshake, selfClosedAt>>

\* a task that has finished: returned, raised, or was cancelled unstarted
Terminated(t) == pc[t] \in {"done", "failed", "cancelled"}

\* the Session before new() is called
SessionInit ==
    /\ pc = [p \in Procs |-> IF p = "main" THEN "init" ELSE "absent"]
    /\ cur = "none"
    /\ tasks = <<>>
    /\ ws_closed = FALSE
    /\ conn = "none"
    /\ cancelReq = [t \in Tasks |-> FALSE]
    /\ frame = NoFrame
    /\ pending = <<>>
    /\ nIn = 0
    /\ extCloses = 0
    /\ acks = <<>>
    /\ invoked = <<>>
    /\ errs = 0
    /\ looped = FALSE
    /\ closeCalls = 0
    /\ closeReturned = 0
    /\ handshakes = 0
    /\ callNo = [c \in {"main", "rx"} |-> 0]
    /\ lateHandshake = FALSE
    /\ lateIO = FALSE
    /\ selfClosedAt = 0
    /\ hbErr = FALSE
    /\ raisedAt = 0
    /\ closedPing = FALSE
    /\ hbCancelledAt = "none"
    /\ hbFrames = {}

\* the clock and the codec at rest, where the Session's run leaves them
ClockOff == [now |-> 0, wakeAt |-> 0, pings |-> 0, waited |-> 0]
CodecOff == [stage |-> "off"]
ProgOff == [stage |-> "off"]
RoomOff == [stage |-> "off"]
SeriesOff == [stage |-> "off"]

\* the parts of the program that are not running
PartsOff == prog = ProgOff /\ room = RoomOff /\ series = SeriesOff

Init ==
    /\ SessionInit
    /\ clock = ClockOff
    /\ codec = CodecOff
    /\ PartsOff

\* ------------------------------------------------------------- new()
\* only the heartbeat task is created
NewOkHeartbeatOnly ==
    /\ pc["main"] = "init" /\ cur = "none"
    /\ conn' = "up"
    /\ tasks' = <<"hb">>
    /\ pc' = [pc EXCEPT !["main"] = "idle", !["hb"] = "created"]
    /\ cur' = "main"
    /\ UNCHANGED <<ws_closed, cancelReq, frameVars, closeVars, lateIO, hbErr, raisedAt, closedPing, hbCancelledAt, hbFrames, auxVars>>

\* DouyinChatWebSocketClient.new: ws_connect, then create_task twice.
\* create_task only schedules: both tasks exist and have not run yet.
NewOk ==
    /\ pc["main"] = "init" /\ cur = "none"
    /\ conn' = "up"
    /\ tasks' = <<"hb", "rx">>
    /\ pc' = [pc EXCEPT !["main"] = "idle", !["hb"] = "created", !["rx"] = "created"]
    /\ cur' = "main"
    /\ UNCHANGED <<ws_closed, cancelReq, frameVars, closeVars, lateIO, hbErr, raisedAt, closedPing, hbCancelledAt, hbFrames, auxVars>>

\* the tasks created before the connection is made: ws_connect raises and
\* leaves them scheduled
NewFailsTasksFirst ==
    /\ pc["main"] = "init" /\ cur = "none"
    /\ tasks' = <<"hb", "rx">>
    /\ pc' = [pc EXCEPT !["main"] = "open_failed", !["hb"] = "created",
                         !["rx"] = "created"]
    /\ UNCHANGED <<cur, wsVars, cancelReq, frameVars, closeVars, lateIO, hbErr, raisedAt, closedPing, hbCancelledAt, hbFrames, auxVars>>

\* ws_connect raises: new() raises before any create_task
NewFails ==
    /\ pc["main"] = "init" /\ cur = "none"
    /\ pc' = [pc EXCEPT !["main"] = "open_failed"]
    /\ UNCHANGED <<cur, tasks, wsVars, cancelReq, frameVars, closeVars, lateIO, hbErr, raisedAt, closedPing, hbCancelledAt, hbFrames, auxVars>>

\* ------------------------------------------------------------- transport
\* What a write on the transport (ping, send_bytes) can do: return at once,
\* suspend in the drain of a full write buffer, or raise.  A write on a
\* closed transport raises.
SendResults(closed) == IF closed THEN {"fail"} ELSE {"sent", "drain", "fail"}

\* a ping, an ack send or a read is taking place
NoteIO == lateIO' = (lateIO \/ closeReturned > 0)

\* ------------------------------------------------------------- Heartbeat
\* no `except asyncio.CancelledError` clause: the CancelledError leaves the
\* coroutine and the task ends cancelled
HbCancelledUncaught ==
    /\ cur = "none" /\ pc["hb"] \in {"created", "ping", "sleep"}
    /\ cancelReq["hb"]
    /\ pc' = [pc EXCEPT !["hb"] = "cancelled"]
    /\ cancelReq' = [cancelReq EXCEPT !["hb"] = FALSE]
    /\ hbCancelledAt' = pc["hb"]
    /\ UNCHANGED <<cur, tasks, wsVars, frameVars, closeVars, lateIO, hbErr,
                   raisedAt, closedPing, hbFrames, auxVars>>

\* The CancelledError is thrown into the Heartbeat Task when it is resumed:
\* `except asyncio.CancelledError: pass`.  A task cancelled before its
\* first step never enters its body and ends cancelled.
HbCancelled ==
    /\ cur = "none" /\ pc["hb"] \in {"created", "ping", "sleep"}
    /\ cancelReq["hb"]
    /\ pc' = [pc EXCEPT !["hb"] = IF pc["hb"] = "created" THEN "cancelled" ELSE "done"]
    /\ cancelReq' = [cancelReq EXCEPT !["hb"] = FALSE]
    /\ hbCancelledAt' = pc["hb"]
    /\ UNCHANGED <<cur, tasks, wsVars, frameVars, closeVars, lateIO, hbErr,
                   raisedAt, closedPing, hbFrames, auxVars>>

\* where the heartbeat loop goes after the ping call, by the ping's result
AfterPing(r) ==
    CASE r = "sent" -> "sleep"
      [] r = "drain" -> "ping"
      [] r = "fail" -> "done"

\* a heartbeat frame that carries the number of messages received so far
HeartbeatFrameCounted ==
    [log_id |-> nIn, payload_type |-> "", payload |-> <<104, 98>>]

\* `PushFrame(payload=b"hb")`: every other field keeps its default
HeartbeatFrame == [log_id |-> 0, payload_type |-> "", payload |-> <<104, 98>>]

\* `while True:`
LoopTestAlways(closed) == TRUE

\* `while not self._ws_session.closed:`
LoopTest(closed) == ~closed

\* a heartbeat loop that idles on a closed transport until close() is
\* called, instead of leaving its while loop
HbLoopIdlesWhenClosed ==
    /\ ~ws_closed \/ closeCalls > 0
    /\ cur = "none" /\ pc["hb"] \in {"created", "sleep"}
    /\ ~cancelReq["hb"]
    /\ IF ~LoopTest(ws_closed)
       THEN /\ pc' = [pc EXCEPT !["hb"] = "done"]
            /\ UNCHANGED <<lateIO, hbErr, closedPing, hbFrames>>
       ELSE \E r \in SendResults(ws_closed) :
            /\ pc' = [pc EXCEPT !["hb"] = AfterPing(r)]
            /\ hbFrames' = hbFrames \cup {HeartbeatFrame}
            /\ hbErr' = (hbErr \/ r = "fail")
            /\ closedPing' = (closedPing \/ ws_closed)
            /\ NoteIO
    /\ UNCHANGED <<cur, tasks, wsVars, cancelReq, frameVars, closeVars, raisedAt,
                   hbCancelledAt, auxVars>>

\* the ping held back while the Receive Task is inside a send or waits for
\* a message, as behind a lock the two tasks share
HbLoopBehindReceive ==
    /\ pc["rx"] \notin {"recv", "ack_drain"}
    /\ cur = "none" /\ pc["hb"] \in {"created", "sleep"}
    /\ ~cancelReq["hb"]
    /\ IF ~LoopTest(ws_closed)
       THEN /\ pc' = [pc EXCEPT !["hb"] = "done"]
            /\ UNCHANGED <<lateIO, hbErr, closedPing, hbFrames>>
       ELSE \E r \in SendResults(ws_closed) :
            /\ pc' = [pc EXCEPT !["hb"] = AfterPing(r)]
            /\ hbFrames' = hbFrames \cup {HeartbeatFrame}
            /\ hbErr' = (hbErr \/ r = "fail")
            /\ closedPing' = (closedPing \/ ws_closed)
            /\ NoteIO
    /\ UNCHANGED <<cur, tasks, wsVars, cancelReq, frameVars, closeVars, raisedAt,
                   hbCancelledAt, auxVars>>

\* _send_heartbeat, from its start or from the end of a sleep: the loop
\* test, then the ping, up to the next suspension.  A ping that raises
\* leaves the while loop through `except Exception`, which logs.
HbLoop ==
    /\ cur = "none" /\ pc["hb"] \in {"created", "sleep"}
    /\ ~cancelReq["hb"]
    /\ IF ~LoopTest(ws_closed)
       THEN /\ pc' = [pc EXCEPT !["hb"] = "done"]
            /\ UNCHANGED <<lateIO, hbErr, closedPing, hbFrames>>
       ELSE \E r \in SendResults(ws_closed) :
            /\ pc' = [pc EXCEPT !["hb"] = AfterPing(r)]
            /\ hbFrames' = hbFrames \cup {HeartbeatFrame}
            /\ hbErr' = (hbErr \/ r = "fail")
            /\ closedPing' = (closedPing \/ ws_closed)
            /\ NoteIO
    /\ UNCHANGED <<cur, tasks, wsVars, cancelReq, frameVars, closeVars, raisedAt,
                   hbCancelledAt, auxVars>>

\* the ping was suspended in the drain and is resumed: it returns, and the
\* task goes to sleep, or it raises
HbPingResumed ==
    /\ cur = "none" /\ pc["hb"] = "ping"
    /\ ~cancelReq["hb"]
    /\ \E ok \in BOOLEAN :
       /\ pc' = [pc EXCEPT !["hb"] = IF ok THEN "sleep" ELSE "done"]
       /\ hbErr' = (hbErr \/ ~ok)
    /\ UNCHANGED <<cur, tasks, wsVars, cancelReq, frameVars, closeVars, lateIO,
                   raisedAt, closedPing, hbCancelledAt, hbFrames, auxVars>>

\* ------------------------------------------------------------- close()
Callers == {"main", "rx"}

\* `for task in self._tasks: task.cancel()`: a request to every task of
\* the list that has not finished, the calling task included
CancelAll(cr) ==
    [t \in Tasks |->
        cr[t] \/ (\E i \in 1..Len(tasks) : tasks[i] = t /\ ~Terminated(t))]

\* the first statement of close(), by caller c
CloseBegin(c) ==
    /\ cancelReq' = CancelAll(cancelReq)
    /\ closeCalls' = closeCalls + 1
    /\ callNo' = [callNo EXCEPT ![c] = closeCalls + 1]

\* the close frame written whatever the transport's state
StartsHandshakeAlways(closed) == TRUE

\* `await self._ws_session.close()`: the transport starts a closing
\* handshake only when it is not closed yet; otherwise the call returns
\* at once, without suspending
StartsHandshake(closed) == ~closed

\* the owner opens the Session again as soon as its close() has returned
CloseReturnsReopen(c) ==
    /\ pc' = [pc EXCEPT ![c] = IF c = "main" THEN "init" ELSE "dispatch"]
    /\ cur' = IF c = "main" THEN "none" ELSE c
    /\ closeReturned' = closeReturned + 1

\* close() returns to its caller, which goes on running: the owner after
\* its `await ws.close()`, the control handler back into the for loop
CloseReturns(c) ==
    /\ pc' = [pc EXCEPT ![c] = IF c = "main" THEN "idle" ELSE "dispatch"]
    /\ cur' = c
    /\ closeReturned' = closeReturned + 1

\* close() returns without cancelling the tasks or closing the transport
MainCloseNothing ==
    /\ pc["main"] = "idle" /\ cur \in {"none", "main"}
    /\ extCloses < MaxClose
    /\ extCloses' = extCloses + 1
    /\ closeCalls' = closeCalls + 1
    /\ callNo' = [callNo EXCEPT !["main"] = closeCalls + 1]
    /\ closeReturned' = closeReturned + 1
    /\ cur' = "main"
    /\ UNCHANGED <<pc, tasks, wsVars, cancelReq, frameVars, handshakes,
                   lateHandshake, lateIO, selfClosedAt, hbErr, raisedAt, closedPing, hbCancelledAt, hbFrames, auxVars>>

\* The owner of the Session calls close() (main.py: `await ws.close()`).
MainClose ==
    /\ pc["main"] = "idle" /\ cur \in {"none", "main"}
    /\ extCloses < MaxClose
    /\ extCloses' = extCloses + 1
    /\ CloseBegin("main")
    /\ pc' = [pc EXCEPT !["main"] = "close_ws"]
    /\ cur' = "main"
    /\ UNCHANGED <<tasks, wsVars, frameVars, closeReturned, handshakes,
                   lateHandshake, lateIO, selfClosedAt, hbErr, raisedAt, closedPing, hbCancelledAt, hbFrames, auxVars>>

\* the owner suspends (main.py: `await asyncio.sleep(60)`)
MainYield ==
    /\ pc["main"] = "idle" /\ cur = "main"
    /\ cur' = "none"
    /\ UNCHANGED <<pc, tasks, wsVars, cancelReq, frameVars, closeVars, lateIO, hbErr, raisedAt, closedPing, hbCancelledAt, hbFrames, auxVars>>

\* close() reaches the transport's close.  On a closed transport it
\* returns at once.  When another task is waiting in receive(), the
\* transport first wakes that reader and waits for it to leave.
WsCloseCall(c) ==
    /\ IF ~StartsHandshake(ws_closed)
       THEN CloseReturns(c)
       ELSE /\ pc' = [pc EXCEPT ![c] =
                        IF pc["rx"] = "recv" THEN "close_wait_rx" ELSE "close_hs"]
            /\ cur' = IF pc["rx"] = "recv" THEN "none" ELSE c
            /\ UNCHANGED closeReturned
    /\ UNCHANGED cancelReq

\* close() suspends between the cancel loop and the transport's close (it
\* awaits the cancelled tasks first): a caller that is itself one of the
\* cancelled tasks gets its CancelledError there and never closes the
\* transport
WsCloseAfterAwait(c) ==
    /\ pc[c] = "close_ws" /\ cur = c
    /\ IF c \in Tasks
       THEN /\ pc' = [pc EXCEPT ![c] = "done"]
            /\ cur' = "none"
            /\ cancelReq' = [cancelReq EXCEPT ![c] = FALSE]
            /\ UNCHANGED closeReturned
       ELSE WsCloseCall(c)
    /\ UNCHANGED <<tasks, wsVars, frameVars, extCloses, closeCalls,
                   handshakes, callNo, lateHandshake, lateIO, selfClosedAt, hbErr, raisedAt, closedPing, hbCancelledAt, hbFrames, auxVars>>

\* close() that cancels the tasks and leaves the transport as it is
WsCloseSkipped(c) ==
    /\ pc[c] = "close_ws" /\ cur = c
    /\ CloseReturns(c)
    /\ UNCHANGED <<tasks, wsVars, cancelReq, frameVars, extCloses, closeCalls,
                   handshakes, callNo, lateHandshake, lateIO, selfClosedAt, hbErr,
                   raisedAt, closedPing, hbCancelledAt, hbFrames, auxVars>>

\* `await self._ws_session.close()`, right after the cancel loop
WsClose(c) ==
    /\ pc[c] = "close_ws" /\ cur = c
    /\ WsCloseCall(c)
    /\ UNCHANGED <<tasks, wsVars, frameVars, extCloses, closeCalls,
                   handshakes, callNo, lateHandshake, lateIO, selfClosedAt, hbErr, raisedAt, closedPing, hbCancelledAt, hbFrames, auxVars>>

\* the reader has left receive(): the close goes on
CloseReaderLeft(c) ==
    /\ pc[c] = "close_wait_rx" /\ cur = "none"
    /\ pc["rx"] # "recv"
    /\ pc' = [pc EXCEPT ![c] = "close_hs"]
    /\ cur' = c
    /\ UNCHANGED <<tasks, wsVars, cancelReq, frameVars, closeVars, lateIO, hbErr, raisedAt, closedPing, hbCancelledAt, hbFrames, auxVars>>

\* The closing handshake: `closed` is set, the close frame is written, and
\* the transport reads until the peer's close frame.  The reply may be
\* there already ("replied"), the write may raise ("fail": the transport
\* drops the connection and returns), or the call suspends ("wait").
CloseHandshake(c) ==
    /\ pc[c] = "close_hs" /\ cur = c
    /\ IF ~StartsHandshake(ws_closed)
       THEN /\ CloseReturns(c)
            /\ UNCHANGED <<wsVars, handshakes, lateHandshake>>
       ELSE /\ ws_closed' = TRUE
            /\ handshakes' = handshakes + 1
            /\ lateHandshake' = (lateHandshake \/ callNo[c] > 1)
            /\ \E r \in {"replied", "wait", "fail"} :
               IF r = "wait"
               THEN /\ pc' = [pc EXCEPT ![c] = "close_wait_reply"]
                    /\ cur' = "none"
                    /\ UNCHANGED <<conn, closeReturned>>
               ELSE /\ conn' = "down"
                    /\ CloseReturns(c)
    /\ UNCHANGED <<tasks, cancelReq, frameVars, extCloses, closeCalls, callNo,
                   lateIO, selfClosedAt, hbErr, raisedAt, closedPing, hbCancelledAt, hbFrames, auxVars>>

\* the peer's close frame arrives, or the wait for it times out: the
\* connection is dropped and close() returns
CloseReplied(c) ==
    /\ pc[c] = "close_wait_reply" /\ cur = "none"
    /\ c \in Tasks => ~cancelReq[c]
    /\ conn' = "down"
    /\ CloseReturns(c)
    /\ UNCHANGED <<tasks, ws_closed, cancelReq, frameVars, extCloses, closeCalls,
                   handshakes, callNo, lateHandshake, lateIO, selfClosedAt, hbErr, raisedAt, closedPing, hbCancelledAt, hbFrames, auxVars>>

\* ------------------------------------------------------------- Receive
\* The CancelledError is thrown into the Receive Task where it is
\* suspended; nothing on its way catches it (`except Exception` of the
\* dispatch loop does not) until `except asyncio.CancelledError: pass` of
\* _receive_loop.  Thrown into the transport's close, it makes the
\* transport drop the connection before it re-raises.
RxCancelled ==
    /\ cur = "none"
    /\ pc["rx"] \in {"created", "recv", "ack_drain", "close_wait_reply"}
    /\ cancelReq["rx"]
    /\ pc' = [pc EXCEPT !["rx"] = IF pc["rx"] = "created" THEN "cancelled" ELSE "done"]
    /\ cancelReq' = [cancelReq EXCEPT !["rx"] = FALSE]
    /\ conn' = IF pc["rx"] = "close_wait_reply" THEN "down" ELSE conn
    /\ UNCHANGED <<cur, tasks, ws_closed, frameVars, closeVars, lateIO, hbErr, raisedAt, closedPing, hbCancelledAt, hbFrames, auxVars>>

\* `async for msg in self._ws_session`: on a closed transport the
\* iteration ends at once, otherwise the task waits for a message
AwaitNext(closed) == IF closed THEN "done" ELSE "recv"

\* the first step of _receive_loop
RxStart ==
    /\ cur = "none" /\ pc["rx"] = "created"
    /\ ~cancelReq["rx"]
    /\ pc' = [pc EXCEPT !["rx"] = AwaitNext(ws_closed)]
    /\ UNCHANGED <<cur, tasks, wsVars, cancelReq, frameVars, closeVars, lateIO, hbErr, raisedAt, closedPing, hbCancelledAt, hbFrames, auxVars>>

\* a text message handed to the binary branch
AfterMessageTextAsBinary(type) ==
    CASE type \in {"BINARY", "TEXT"} -> "handle"
      [] type \in {"CLOSE", "ERROR"} -> "done"

\* _handle_binary started as a task of its own, the loop back at its read
AfterMessageBinarySpawned(type) ==
    CASE type \in {"BINARY", "TEXT"} -> "recv"
      [] type \in {"CLOSE", "ERROR"} -> "done"

\* the branch of _receive_loop a message takes, by msg.type
AfterMessage(type) ==
    CASE type = "BINARY" -> "handle"
      [] type = "TEXT" -> "recv"
      [] type \in {"CLOSE", "ERROR"} -> "done"

\* The next inbound message reaches _receive_loop.  A CLOSE or ERROR
\* message closes the transport (aiohttp's autoclose answers the peer's
\* close frame) and ends the loop; a TEXT message goes to _handle_text,
\* which does nothing.  A reader woken by a close() of another task gets
\* a closing message, which ends the iteration.
RxReceive ==
    /\ cur = "none" /\ pc["rx"] = "recv"
    /\ ~cancelReq["rx"]
    /\ IF ws_closed \/ \E c \in Callers : pc[c] = "close_wait_rx"
       THEN /\ pc' = [pc EXCEPT !["rx"] = "done"]
            /\ UNCHANGED <<cur, wsVars, frameVars, handshakes, lateIO>>
       ELSE /\ nIn < MaxInbound
            /\ \E msg \in Inbound :
               /\ frame' = msg
               /\ nIn' = nIn + 1
               /\ pending' = <<>>
               /\ acks' = <<>>
               /\ invoked' = <<>>
               /\ errs' = 0
               /\ looped' = FALSE
               /\ NoteIO
               /\ pc' = [pc EXCEPT !["rx"] = AfterMessage(msg.type)]
               /\ cur' = IF msg.type = "BINARY" THEN "rx" ELSE "none"
               /\ ws_closed' = (msg.type \in {"CLOSE", "ERROR"})
               /\ conn' = IF msg.type \in {"CLOSE", "ERROR"} THEN "down" ELSE conn
               /\ handshakes' = IF msg.type \in {"CLOSE", "ERROR"}
                                THEN handshakes + 1 ELSE handshakes
    /\ UNCHANGED <<tasks, cancelReq, extCloses, closeCalls, closeReturned,
                   callNo, lateHandshake, selfClosedAt, hbErr, raisedAt, closedPing, hbCancelledAt, hbFrames, auxVars>>

\* _handle_binary, its first two statements: a frame or an Envelope that
\* does not parse, or a payload that is not gzip, raises; nothing catches
\* the exception, in _handle_binary or in _receive_loop
AfterDecode(result) == IF result = "ok" THEN "ack" ELSE "failed"

RxDecode ==
    /\ cur = "rx" /\ pc["rx"] = "handle"
    /\ pc' = [pc EXCEPT !["rx"] = AfterDecode(frame.decode)]
    /\ cur' = IF AfterDecode(frame.decode) = "failed" THEN "none" ELSE "rx"
    /\ UNCHANGED <<tasks, wsVars, cancelReq, frameVars, closeVars, lateIO, hbErr, raisedAt, closedPing, hbCancelledAt, hbFrames, auxVars>>

\* the log_id left out of the ack: the field keeps its default
AckFrameNoLogId(f) ==
    [log_id |-> 0, payload_type |-> "ack",
     payload |-> Utf8Encode(f.internal_ext)]

\* the ack frame _handle_binary builds for an inbound frame
AckFrame(f) ==
    [log_id |-> f.log_id, payload_type |-> "ack",
     payload |-> Utf8Encode(f.internal_ext)]

\* where _handle_binary goes after the send_bytes call, by its result: the
\* dispatch loop, the suspension in the drain, or out with the exception
AfterAck(r) ==
    CASE r = "sent" -> "dispatch"
      [] r = "drain" -> "ack_drain"
      [] r = "fail" -> "failed"

\* `if cond:` followed by the send of the ack, then the for loop
RxAckIf(cond) ==
    /\ cur = "rx" /\ pc["rx"] = "ack"
    /\ IF cond
       THEN \E r \in SendResults(ws_closed) :
            /\ acks' = Append(acks, AckFrame(frame))
            /\ NoteIO
            /\ pc' = [pc EXCEPT !["rx"] = AfterAck(r)]
            /\ cur' = IF r = "sent" THEN "rx" ELSE "none"
            /\ pending' = IF r = "sent" THEN frame.messages_list ELSE pending
            /\ looped' = (r = "sent")
       ELSE /\ pc' = [pc EXCEPT !["rx"] = "dispatch"]
            /\ pending' = frame.messages_list
            /\ looped' = TRUE
            /\ UNCHANGED <<cur, acks, lateIO>>
    /\ UNCHANGED <<tasks, wsVars, cancelReq, frame, nIn, invoked, errs, closeVars, hbErr, raisedAt, closedPing, hbCancelledAt, hbFrames, auxVars>>

\* the condition inverted: the ack goes to the frames that ask for none
RxAckInverted == RxAckIf(~frame.need_ack)

\* the ack sent for every frame, the need_ack flag not looked at
RxAckAlways == RxAckIf(TRUE)

\* `if response.need_ack:` and the send of the ack
RxAck == RxAckIf(frame.need_ack)

\* send_bytes was suspended in the drain and is resumed: it returns, and
\* the dispatch loop starts, or it raises
RxAckResumed ==
    /\ cur = "none" /\ pc["rx"] = "ack_drain"
    /\ ~cancelReq["rx"]
    /\ \E ok \in BOOLEAN :
       /\ pc' = [pc EXCEPT !["rx"] = IF ok THEN "dispatch" ELSE "failed"]
       /\ cur' = IF ok THEN "rx" ELSE "none"
       /\ pending' = IF ok THEN frame.messages_list ELSE pending
       /\ looped' = ok
    /\ UNCHANGED <<tasks, wsVars, cancelReq, frame, nIn, acks, invoked, errs,
                   closeVars, lateIO, hbErr, raisedAt, closedPing, hbCancelledAt, hbFrames, auxVars>>

\* the handler called without await when it is a coroutine function: the
\* call only makes a coroutine object, the handler's body never runs
HandlerOutcomeNotAwaited(m) ==
    IF m.method \in AsyncHandlers THEN "return"
    ELSE IF ~m.valid THEN "raise" ELSE "return"

\* a control handler that calls close() whatever the status is
HandlerOutcomeAnyStatus(m) ==
    IF ~m.valid THEN "raise"
    ELSE IF m.method = "WebcastControlMessage" THEN "close"
         ELSE "return"

\* What a handler does with a SubMessage: it raises when the payload does
\* not parse (or a field is out of the range it indexes with); the control
\* handler calls close() on status 3; otherwise it returns.
HandlerOutcome(m) ==
    IF ~m.valid THEN "raise"
    ELSE IF m.method = "WebcastControlMessage" /\ m.status = StatusEnded
         THEN "close"
         ELSE "return"

\* the try around the whole loop instead of around one call: a handler
\* that raises ends the loop
NextPendingAbort(outcome, rest) == IF outcome = "raise" THEN <<>> ELSE rest

\* the SubMessages the for loop still visits after a handler returned or
\* raised: `except Exception` logs and the loop goes on
NextPending(outcome, rest) == rest

\* no try around the handler call: a handler that raises takes
\* _handle_binary and the Receive Task with it
AfterHandlerUncaught(outcome) ==
    CASE outcome = "close" -> "close_ws"
      [] outcome = "raise" -> "failed"
      [] OTHER -> "dispatch"

\* where the Receive Task stands after a handler call: inside close() when
\* the control handler called it, else back in the for loop, whether the
\* handler returned or raised (`except Exception` logs the raise)
AfterHandler(outcome) ==
    CASE outcome = "close" -> "close_ws"
      [] OTHER -> "dispatch"

\* a lookup that falls back on a default handler for an unknown method
HasHandlerAny(method) == TRUE

\* `handler = handlers.get(msg.method)` and `if handler:`
HasHandler(method) == method \in Handlers

\* One turn of `for msg in response.messages_list`: the handler lookup
\* and, for a known method, the handler call.
RxDispatch ==
    /\ cur = "rx" /\ pc["rx"] = "dispatch" /\ pending # <<>>
    /\ LET m == Head(pending)
           o == HandlerOutcome(m)
       IN  IF ~HasHandler(m.method)
           THEN /\ pending' = Tail(pending)
                /\ UNCHANGED <<pc, cur, cancelReq, invoked, errs, closeCalls, callNo,
                               selfClosedAt, raisedAt>>
           ELSE /\ invoked' = Append(invoked, m)
                /\ errs' = IF o = "raise" THEN errs + 1 ELSE errs
                /\ raisedAt' = IF o = "raise" /\ raisedAt = 0 THEN nIn ELSE raisedAt
                /\ pending' = NextPending(o, Tail(pending))
                /\ pc' = [pc EXCEPT !["rx"] = AfterHandler(o)]
                /\ cur' = IF AfterHandler(o) = "failed" THEN "none" ELSE cur
                /\ IF o = "close"
                   THEN /\ CloseBegin("rx")
                        /\ selfClosedAt' = nIn
                   ELSE UNCHANGED <<cancelReq, closeCalls, callNo, selfClosedAt>>
    /\ UNCHANGED <<tasks, wsVars, frame, nIn, acks, looped, extCloses,
                   closeReturned, handshakes, lateHandshake, lateIO, hbErr,
                   closedPing, hbCancelledAt, hbFrames, auxVars>>

\* the for loop is over: _handle_binary returns and _receive_loop asks
\* for the next message
RxDispatchEnd ==
    /\ cur = "rx" /\ pc["rx"] = "dispatch" /\ pending = <<>>
    /\ pc' = [pc EXCEPT !["rx"] = AwaitNext(ws_closed)]
    /\ cur' = "none"
    /\ UNCHANGED <<tasks, wsVars, cancelReq, frameVars, closeVars, lateIO, hbErr, raisedAt, closedPing, hbCancelledAt, hbFrames, auxVars>>

\* ------------------------------------------------------------- system
Next ==
    \/ NewOk
    \/ NewFails
    \/ HbCancelled
    \/ HbLoop
    \/ HbPingResumed
    \/ MainClose
    \/ MainYield
    \/ \E c \in Callers : WsClose(c)
    \/ \E c \in Callers : CloseReaderLeft(c)
    \/ \E c \in Callers : CloseHandshake(c)
    \/ \E c \in Callers : CloseReplied(c)
    \/ RxCancelled
    \/ RxStart
    \/ RxReceive
    \/ RxDecode
    \/ RxAck
    \/ RxAckResumed
    \/ RxDispatch
    \/ RxDispatchEnd

Spec == Init /\ [][Next]_vars

\* The event loop runs every task that is ready: a sleep ends, a suspended
\* write or close is resumed, a task that holds the loop reaches its next
\* await.  What the peer sends and whether the owner calls close() is left
\* open.
Fairness ==
    /\ WF_vars(HbCancelled) /\ WF_vars(HbLoop) /\ WF_vars(HbPingResumed)
    /\ WF_vars(MainYield)
    /\ \A c \in Callers :
          /\ WF_vars(WsClose(c)) /\ WF_vars(CloseReaderLeft(c))
          /\ WF_vars(CloseHandshake(c)) /\ WF_vars(CloseReplied(c))
    /\ WF_vars(RxCancelled) /\ WF_vars(RxStart)
    /\ WF_vars(RxDecode) /\ WF_vars(RxAck) /\ WF_vars(RxAckResumed)
    /\ WF_vars(RxDispatch) /\ WF_vars(RxDispatchEnd)

FairSpec == Spec /\ Fairness

TypeOK ==
    /\ pc \in [Procs -> {"init", "open_failed", "idle", "absent", "created",
                         "ping", "sleep", "recv", "handle", "ack", "ack_drain",
                         "dispatch", "close_ws", "close_wait_rx", "close_hs",
                         "close_wait_reply", "done", "failed", "cancelled"}]
    /\ cur \in Procs \cup {"none"}
    /\ ws_closed \in BOOLEAN
    /\ conn \in {"none", "up", "down"}
    /\ nIn \in 0..MaxInbound
    /\ Len(pending) <= MaxMsgs

\* ------------------------------------------------------------- heartbeat clock
\* _send_heartbeat against a clock, on a Session that stays open: the peer
\* is silent, the owner sleeps, every ping succeeds.  Time passes only
\* while the task is suspended and its timer is in the future.

\* `interval: int = 5`
Interval == 5

\* the Session as new() returns it, its owner suspended
Opened ==
    /\ pc = [p \in Procs |-> IF p = "main" THEN "idle" ELSE "created"]
    /\ cur = "none"
    /\ tasks = TaskOrder
    /\ ws_closed = FALSE
    /\ conn = "up"
    /\ cancelReq = [t \in Tasks |-> FALSE]
    /\ frame = NoFrame /\ pending = <<>> /\ nIn = 0
    /\ acks = <<>> /\ invoked = <<>> /\ errs = 0 /\ looped = FALSE
    /\ extCloses = 0 /\ closeCalls = 0 /\ closeReturned = 0 /\ handshakes = 0
    /\ callNo = [c \in {"main", "rx"} |-> 0]
    /\ lateHandshake = FALSE /\ lateIO = FALSE /\ selfClosedAt = 0
    /\ hbErr = FALSE /\ raisedAt = 0 /\ closedPing = FALSE
    /\ hbCancelledAt = "none" /\ hbFrames = {}

ClockInit ==
    /\ Opened
    /\ clock = ClockOff
    /\ codec = CodecOff
    /\ PartsOff

\* the sleep of twice the interval
SleepUntilTwice(t, interval) == t + 2 * interval

\* `await asyncio.sleep(interval)` called at time t: the time the task is
\* resumed
SleepUntil(t, interval) == t + interval

\* the loop test and the ping, at the start of the task or at the end of a
\* sleep.  The ping returns at once and the task goes to sleep, or it is
\* suspended in the drain for d time units.
ClockPing ==
    /\ cur = "none" /\ pc["hb"] \in {"created", "sleep"}
    /\ ~cancelReq["hb"] /\ LoopTest(ws_closed)
    /\ clock.now = clock.wakeAt
    /\ hbFrames' = hbFrames \cup {HeartbeatFrame}
    /\ \E d \in 0..MaxLatency :
       IF d = 0
       THEN /\ pc' = [pc EXCEPT !["hb"] = AfterPing("sent")]
            /\ clock' = [clock EXCEPT !.pings = @ + 1,
                                      !.wakeAt = SleepUntil(clock.now, Interval)]
       ELSE /\ pc' = [pc EXCEPT !["hb"] = AfterPing("drain")]
            /\ clock' = [clock EXCEPT !.pings = @ + 1,
                                      !.wakeAt = clock.now + d,
                                      !.waited = @ + d]
    /\ UNCHANGED <<cur, tasks, wsVars, cancelReq, frameVars, closeVars, lateIO,
                   hbErr, raisedAt, closedPing, hbCancelledAt, codec, progVars>>

\* the drain is over: the ping returns and the task goes to sleep
ClockPingDone ==
    /\ cur = "none" /\ pc["hb"] = "ping"
    /\ ~cancelReq["hb"]
    /\ clock.now = clock.wakeAt
    /\ pc' = [pc EXCEPT !["hb"] = "sleep"]
    /\ clock' = [clock EXCEPT !.wakeAt = SleepUntil(clock.now, Interval)]
    /\ UNCHANGED <<cur, tasks, wsVars, cancelReq, frameVars, closeVars, lateIO,
                   hbErr, raisedAt, closedPing, hbCancelledAt, hbFrames, codec, progVars>>

\* one time unit passes while the task is suspended
ClockTick ==
    /\ pc["hb"] \in {"ping", "sleep"}
    /\ clock.now < clock.wakeAt /\ clock.now < MaxTime
    /\ clock' = [clock EXCEPT !.now = @ + 1]
    /\ UNCHANGED <<sessionVars, codec, progVars>>

ClockNext == ClockPing \/ ClockPingDone \/ ClockTick

ClockSpec == ClockInit /\ [][ClockNext]_vars

\* ---------------------------------------------------------------------
\* The frame codec: PushFrame().SerializeToString() and PushFrame().parse()
\* of the generated module protobuf.douyin, as the proto3 wire format of
\* message PushFrame (log_id = 2 uint64, payload_type = 7 string,
\* payload = 8 bytes). Bytes are numbers in 0..255.

\* log ids on both sides of every varint length boundary up to four bytes
CodecLogIds == {1, 7, 127, 128, 300, 16383, 16384, 2097152}
\* code points of an internal_ext whose UTF-8 bytes need a two-byte
\* length prefix (two bytes to the code point)
LongExt == 64
\* internal_ext strings: empty, one byte, two bytes, mixed, long
CodecExts ==
    InternalExts \cup {<<>>, <<97, 233>>, [i \in 1..LongExt |-> 233]}

\* the frames the Session writes: the heartbeat frame and the ack frames
CodecFrames ==
    {HeartbeatFrame} \cup
    {AckFrame([log_id |-> l, internal_ext |-> e]) :
        l \in CodecLogIds, e \in CodecExts}

\* a base-128 varint that drops the continuation groups
VarintLowGroup(n) == <<n % 128>>

\* base-128 varint, low group first, high bit set on all but the last byte
RECURSIVE Varint(_)
Varint(n) ==
    IF n < 128 THEN <<n>>
    ELSE <<128 + (n % 128)>> \o Varint(n \div 128)

\* the UTF-8 bytes of the payload_type strings the Session uses
StrBytes(s) ==
    CASE s = "" -> <<>>
      [] s = "ack" -> <<97, 99, 107>>

\* bytes.decode("utf-8") on those bytes
BytesStr(b) ==
    CASE b = <<>> -> ""
      [] b = <<97, 99, 107>> -> "ack"
      [] OTHER -> "?"

\* a length-delimited field; proto3 leaves a field at its default out
LenField(key, bytes) ==
    IF bytes = <<>> THEN <<>>
    ELSE <<key>> \o Varint(Len(bytes)) \o bytes

\* PushFrame(...).SerializeToString(): fields in number order, keys
\* (number * 8 + wire type) 16, 58 and 66
EncodeFrame(f) ==
    (IF f.log_id = 0 THEN <<>> ELSE <<16>> \o Varint(f.log_id))
    \o LenField(58, StrBytes(f.payload_type))
    \o LenField(66, f.payload)

\* reads one varint off the front of b
RECURSIVE ReadVarint(_)
ReadVarint(b) ==
    IF b = <<>> THEN [ok |-> FALSE, value |-> 0, rest |-> <<>>]
    ELSE IF Head(b) < 128 THEN [ok |-> TRUE, value |-> Head(b), rest |-> Tail(b)]
    ELSE LET r == ReadVarint(Tail(b))
         IN  [ok |-> r.ok, value |-> (Head(b) - 128) + 128 * r.value,
              rest |-> r.rest]

\* the parser's loop over the fields of b, filling the message acc
RECURSIVE ParseFields(_, _)
ParseFields(b, acc) ==
    IF b = <<>> \/ ~acc.ok THEN acc
    ELSE LET key == Head(b)
             r == ReadVarint(Tail(b))
             fits == r.ok /\ r.value <= Len(r.rest)
             body == SubSeq(r.rest, 1, r.value)
             after == SubSeq(r.rest, r.value + 1, Len(r.rest))
         IN  CASE key = 16 /\ r.ok ->
                    ParseFields(r.rest, [acc EXCEPT !.log_id = r.value])
               [] key = 58 /\ fits ->
                    ParseFields(after, [acc EXCEPT !.payload_type = BytesStr(body)])
               [] key = 66 /\ fits ->
                    ParseFields(after, [acc EXCEPT !.payload = body])
               [] OTHER -> [acc EXCEPT !.ok = FALSE]

\* PushFrame().parse(bytes): every field starts at its default
DecodeFrame(b) ==
    ParseFields(b, [ok |-> TRUE, log_id |-> 0, payload_type |-> "",
                    payload |-> <<>>])

\* a frame about to be written, the Session not yet started
CodecInit ==
    /\ SessionInit
    /\ clock = ClockOff
    /\ codec \in {[stage |-> "frame", frame |-> f] : f \in CodecFrames}
    /\ PartsOff

\* the frame is serialized for ws.ping / ws.send_bytes
CodecEncode ==
    /\ codec.stage = "frame"
    /\ codec' = [stage |-> "wire", frame |-> codec.frame,
                 wire |-> EncodeFrame(codec.frame)]
    /\ UNCHANGED <<sessionVars, clock, progVars>>

\* the bytes are parsed back as a PushFrame
CodecDecode ==
    /\ codec.stage = "wire"
    /\ codec' = [stage |-> "parsed", frame |-> codec.frame,
                 wire |-> codec.wire, out |-> DecodeFrame(codec.wire)]
    /\ UNCHANGED <<sessionVars, clock, progVars>>

CodecNext == CodecEncode \/ CodecDecode

CodecSpec == CodecInit /\ [][CodecNext]_vars

\* ---------------------------------------------------------------------
\* main.py: ntfy_listener and main_task under asyncio.gather (watch mode),
\* or main_task alone (normal mode).  In `prog`, `event` is the flag of
\* event_to_trigger_main_task, `woken` says that set() has resumed the
\* waiter, `main` and `ntfy` are the positions of the two coroutines;
\* `lines`, `triggers`, `by` (the streamer named by the last trigger),
\* `rooms`, `sessions` and `naps` record what has happened.

\* lines ntfy_listener reads in one run, and sleeps of main_task's loop
MaxLines == 3
MaxNaps == 2

\* TARGET_STREAMER and the streamer names of the notifications, as
\* sequences of characters
TargetStreamer == <<1, 2>>
StreamerNames == {<<1, 2>>, <<1, 2, 3>>, <<1>>, <<3, 1, 2>>}

\* str.startswith
StartsWith(s, prefix) ==
    Len(s) >= Len(prefix) /\ SubSeq(s, 1, Len(prefix)) = prefix

\* The lines of the ntfy stream, by what the body of the loop makes of
\* them: bytes that are not UTF-8 or JSON that is not an object ("bad"),
\* text that is not JSON ("notjson"), an object without a message
\* ("nomessage"), a message the pattern does not match ("other"), and a
\* message that says the named streamer is live ("live").
NtfyLines ==
    [kind : {"empty", "bad", "notjson", "nomessage", "other"}, name : {<<>>}]
    \cup [kind : {"live"}, name : StreamerNames]

\* `if match:` and `if streamer_name.startswith(TARGET_STREAMER):`
Triggers(line) == line.kind = "live" /\ StartsWith(line.name, TargetStreamer)

\* the exceptions the loop body lets through: json.JSONDecodeError is
\* caught, UnicodeDecodeError and AttributeError are not
Raises(line) == line.kind = "bad"

\* the program is started, with -w or without
ProgInit ==
    /\ SessionInit
    /\ clock = ClockOff
    /\ codec = CodecOff
    /\ room = RoomOff
    /\ series = SeriesOff
    /\ \E w \in BOOLEAN :
       prog = [watch |-> w, event |-> FALSE, woken |-> FALSE,
               main |-> "start", ntfy |-> IF w THEN "start" ELSE "absent",
               lines |-> 0, triggers |-> 0, by |-> <<>>, rooms |-> 0,
               sessions |-> 0, naps |-> 0]

ProgUnchanged == UNCHANGED <<sessionVars, clock, codec, room, series>>

\* ntfy_listener up to its first suspension: the ClientSession is made
\* and the GET is sent
NtfyStart ==
    /\ prog.ntfy = "start"
    /\ prog' = [prog EXCEPT !.ntfy = "connect"]
    /\ ProgUnchanged

\* the GET and raise_for_status: the stream is open, or an
\* aiohttp.ClientError sends the listener to its sleep of 5 seconds, or
\* the timeout starts the loop again
NtfyConnect ==
    /\ prog.ntfy = "connect" /\ prog.main # "start"
    /\ \E r \in {"ok", "client_error"} :
       prog' = [prog EXCEPT !.ntfy = IF r = "ok" THEN "read" ELSE "retry"]
    /\ ProgUnchanged

\* the sleep is over: `while True` goes round
NtfyRetry ==
    /\ prog.ntfy = "retry"
    /\ prog' = [prog EXCEPT !.ntfy = "connect"]
    /\ ProgUnchanged

\* one line of the stream goes through the body of `async for`.  A
\* trigger sets the event, which wakes a main_task that waits for it.
NtfyLine ==
    /\ prog.ntfy = "read" /\ prog.lines < MaxLines
    /\ \E line \in NtfyLines :
       prog' = [prog EXCEPT
                  !.lines = @ + 1,
                  !.ntfy = IF Raises(line) THEN "failed" ELSE @,
                  !.triggers = IF Triggers(line) THEN @ + 1 ELSE @,
                  !.by = IF Triggers(line) THEN line.name ELSE @,
                  !.event = IF Triggers(line) THEN TRUE ELSE @,
                  !.woken = IF Triggers(line) /\ prog.main = "wait"
                            THEN TRUE ELSE @]
    /\ ProgUnchanged

\* the stream ends, or the total timeout of 60 seconds or a ClientError
\* interrupts it: the listener connects again, at once or after its sleep
NtfyStreamEnds ==
    /\ prog.ntfy = "read"
    /\ \E r \in {"eof", "timeout", "client_error"} :
       prog' = [prog EXCEPT !.ntfy = IF r = "client_error" THEN "retry"
                                     ELSE "connect"]
    /\ ProgUnchanged

\* main_task that goes on without waiting for the event
MainStartNoWait ==
    /\ prog.main = "start" /\ prog.ntfy # "start"
    /\ prog' = [prog EXCEPT !.main = "new"]
    /\ ProgUnchanged

\* main_task up to its first suspension: in watch mode `await
\* event.wait()`, which returns at once only if the event is set
MainStart ==
    /\ prog.main = "start" /\ prog.ntfy # "start"
    /\ prog' = [prog EXCEPT
                  !.main = IF ~prog.watch THEN "new"
                           ELSE IF prog.event THEN "triggered" ELSE "wait"]
    /\ ProgUnchanged

\* the waiter is resumed, wait() returns
MainWoken ==
    /\ prog.main = "wait" /\ prog.woken
    /\ prog' = [prog EXCEPT !.main = "triggered", !.woken = FALSE]
    /\ ProgUnchanged

\* `event_to_trigger_main_task.clear()`
MainClear ==
    /\ prog.main = "triggered"
    /\ prog' = [prog EXCEPT !.main = "new", !.event = FALSE]
    /\ ProgUnchanged

\* `await DoyinLiveRoom.new(args.room)`: the live room, or its error
MainNewRoom ==
    /\ prog.main = "new"
    /\ \E ok \in BOOLEAN :
       prog' = [prog EXCEPT !.main = IF ok THEN "ws" ELSE "failed",
                             !.rooms = IF ok THEN @ + 1 ELSE @]
    /\ ProgUnchanged

\* `ws = await room.create_websocket()`: the Session, or the error of
\* DouyinChatWebSocketClient.new, which leaves through __aexit__
MainCreateWebsocket ==
    /\ prog.main = "ws"
    /\ \E ok \in BOOLEAN :
       prog' = [prog EXCEPT !.main = IF ok THEN "running" ELSE "failed",
                             !.sessions = IF ok THEN @ + 1 ELSE @]
    /\ ProgUnchanged

\* a main_task that serves the next trigger after each sleep
AfterSleepWaitAgain(watch) == IF watch THEN "start" ELSE "running"

\* `while True: await asyncio.sleep(60)`: the loop has no exit of its own
AfterSleep(watch) == "running"

MainSleep ==
    /\ prog.main = "running" /\ prog.naps < MaxNaps
    /\ prog' = [prog EXCEPT !.main = AfterSleep(prog.watch), !.naps = @ + 1]
    /\ ProgUnchanged

\* A coroutine has raised: gather hands the exception to asyncio.run,
\* which cancels the task that is left.
ProgAbort ==
    /\ prog.main = "failed" \/ prog.ntfy = "failed"
    /\ prog.main \notin {"failed", "cancelled"}
          \/ prog.ntfy \notin {"failed", "cancelled", "absent"}
    /\ prog' = [prog EXCEPT
                  !.main = IF @ = "failed" THEN @ ELSE "cancelled",
                  !.ntfy = IF @ \in {"failed", "absent"} THEN @ ELSE "cancelled",
                  !.woken = FALSE]
    /\ ProgUnchanged

ProgNext ==
    \/ NtfyStart
    \/ NtfyConnect
    \/ NtfyRetry
    \/ NtfyLine
    \/ NtfyStreamEnds
    \/ MainStart
    \/ MainWoken
    \/ MainClear
    \/ MainNewRoom
    \/ MainCreateWebsocket
    \/ MainSleep
    \/ ProgAbort

ProgSpec == ProgInit /\ [][ProgNext]_vars

\* ---------------------------------------------------------------------
\* liveroom.py: one call of DoyinLiveRoom.new.  In `room`, `passed` is the
\* session argument ("none", or the state of the ClientSession handed in),
\* `session` the state of instance._session, `base` and `target` what the
\* two GETs came to, `text` what the body gave, `at` the position.

\* HTTP status codes of the responses
Statuses == {200, 403, 404, 429, 500}

\* What an awaited step of the handshake comes to besides a response: an
\* aiohttp.ClientError, the TimeoutError of the session's total timeout,
\* or the CancelledError of a caller that is cancelled meanwhile.
Failures == {"client_error", "timeout", "cancelled"}

\* what a GET came to: a response with its status, a failure, or nothing yet
Response(status) == [kind |-> "response", status |-> status]
Failed(how) == [kind |-> how, status |-> 0]
NoResponse == [kind |-> "none", status |-> 0]

\* `response.status != 200` is false
Ok(r) == r.kind = "response" /\ r.status = 200

\* new() is called, without a session or with an open or a closed one
RoomInit ==
    /\ SessionInit
    /\ clock = ClockOff
    /\ codec = CodecOff
    /\ prog = ProgOff
    /\ series = SeriesOff
    /\ \E s \in {"none", "open", "closed"} :
       room = [passed |-> s, session |-> "none", base |-> NoResponse,
               target |-> NoResponse, text |-> "none", at |-> "start"]

RoomUnchanged == UNCHANGED <<sessionVars, clock, codec, prog, series>>

\* `session if session else aiohttp.ClientSession(...)`, and the first GET
\* is sent
RoomNew ==
    /\ room.at = "start"
    /\ room' = [room EXCEPT
                  !.session = IF room.passed = "none" THEN "open" ELSE room.passed,
                  !.at = "get_base"]
    /\ RoomUnchanged

\* where new() goes after a GET, by what the GET came to and the position
\* that follows a 200
AfterGet(r, next) ==
    CASE Ok(r) -> next
      [] r.kind = "cancelled" -> "cancelled"
      [] OTHER -> "except"

\* what a GET on the session can come to: a closed session raises
GetResults(session) ==
    IF session = "closed" THEN {Failed("runtime_error")}
    ELSE {Response(st) : st \in Statuses} \cup {Failed(f) : f \in Failures}

\* the GET of CONSTANTS.BASE: on 200 the cookie is set and the GET of the
\* room page is sent
RoomBaseResponse ==
    /\ room.at = "get_base"
    /\ \E r \in GetResults(room.session) :
       room' = [room EXCEPT !.base = r, !.at = AfterGet(r, "get_target")]
    /\ RoomUnchanged

\* the GET of the room page: on 200 the body is read
RoomTargetResponse ==
    /\ room.at = "get_target"
    /\ \E r \in GetResults(room.session) :
       room' = [room EXCEPT !.target = r, !.at = AfterGet(r, "text")]
    /\ RoomUnchanged

\* `await response.text()` and the search for the room id: the instance
\* is returned, or ValueError is raised
RoomText ==
    /\ room.at = "text"
    /\ \E r \in {"found", "not_found"} \cup Failures :
       room' = [room EXCEPT
                  !.text = r,
                  !.at = CASE r = "found" -> "returned"
                           [] r = "cancelled" -> "cancelled"
                           [] OTHER -> "except"]
    /\ RoomUnchanged

\* an except clause that closes the session only if new() made it
CloseOnErrorOwnOnly(passed, session) ==
    IF passed = "none" THEN "closed" ELSE session

\* `except Exception as e: await instance._session.close()`
CloseOnError(passed, session) == "closed"

RoomExcept ==
    /\ room.at = "except"
    /\ room' = [room EXCEPT
                  !.session = CloseOnError(room.passed, room.session),
                  !.at = "closing"]
    /\ RoomUnchanged

\* `raise e`: the error reaches the caller
RoomRaise ==
    /\ room.at = "closing"
    /\ room' = [room EXCEPT !.at = "raised"]
    /\ RoomUnchanged

\* the caller leaves its `async with` on the instance: __aexit__ closes
\* the session
RoomExit ==
    /\ room.at = "returned"
    /\ room' = [room EXCEPT !.session = "closed", !.at = "exited"]
    /\ RoomUnchanged

RoomNext ==
    \/ RoomNew
    \/ RoomBaseResponse
    \/ RoomTargetResponse
    \/ RoomText
    \/ RoomExcept
    \/ RoomRaise
    \/ RoomExit

RoomSpec == RoomInit /\ [][RoomNext]_vars

\* ---------------------------------------------------------------------
\* extract_and_visualize_log_data.py: one call of interpolate_data with
\* one target key.  Time is in minutes; the timestamps of the data are
\* whole minutes.  In `series`, `t` is current_time_point, `last` is
\* last_total_user_count, and `out` is interpolated_results, each entry
\* with the branch that gave its estimate.

\* the latest timestamp, the largest count and the longest series of the
\* input data
MaxTs == 3
MaxValue == 2
MaxPoints == 2

\* interval_minutes, max_extrapolation_minutes,
\* audience_extrapolation_minutes and ewma_span_minutes of the call
IntervalMinutes == 2
MaxExtrapolationMinutes == 2
AudienceExtrapolationMinutes == 1
EwmaSpanMinutes == 1

\* the keys target_keys can name
TargetKeys == {"totalUserCount", "audienceCount"}

\* default_max_value: a negative limit, zero, and limits below and at the
\* largest count
Caps == {0 - 1, 0, 1, MaxValue}

\* A point of the data, as extract_log_data makes them: a timestamp, and
\* the count of the target key, or no count of that key (the point has
\* the other key only; `val` is 0 then)
DataPoints ==
    [ts : 0..MaxTs, has : {TRUE}, val : 0..MaxValue]
    \cup [ts : 0..MaxTs, has : {FALSE}, val : {0}]

\* `results.sort(key=lambda x: x['timestamp'])`: the data are in the order
\* of their timestamps
Sorted(d) == \A i \in 1..(Len(d) - 1) : d[i].ts <= d[i + 1].ts

Series ==
    {d \in SeqsUpTo(DataPoints, MaxPoints) : Sorted(d)}

\* `key in point and point[key] is not None`
Has(p) == p.has

SetMin(S) == CHOOSE x \in S : \A y \in S : x <= y
SetMax(S) == CHOOSE x \in S : \A y \in S : x >= y

\* find_nearest_points_for_key: the index of p2_for_key, the first point
\* at or after t that has the key, and of p1_for_key, the last point at
\* or before t that has it, searched downward from p2; 0 for None
P2Index(t, d) ==
    LET S == {i \in 1..Len(d) : d[i].ts >= t /\ Has(d[i])}
    IN  IF S = {} THEN 0 ELSE SetMin(S)

P1Index(t, d) ==
    LET from == IF P2Index(t, d) = 0 THEN Len(d) ELSE P2Index(t, d)
        S == {i \in 1..from : d[i].ts <= t /\ Has(d[i])}
    IN  IF S = {} THEN 0 ELSE SetMax(S)

\* `data.index(p)`: the first point equal to p
FirstIndex(d, p) == SetMin({i \in 1..Len(d) : d[i] = p})

\* an estimate: a value and the branch that gave it, or None
Some(v, how) == [some |-> TRUE, v |-> v, how |-> how]
None == [some |-> FALSE, v |-> 0, how |-> "none"]

\* int(round(num / den)), den > 0.  The quotient is computed in floating
\* point: on a tie either neighbour can come out.
RoundDiv(num, den) ==
    LET q == num \div den
        r == num - q * den
    IN  IF 2 * r < den THEN {q}
        ELSE IF 2 * r > den THEN {q + 1}
        ELSE {q, q + 1}

\* linear interpolation between (x1, y1) and (x2, y2) at x
Interpolate(x1, y1, x2, y2, x) ==
    RoundDiv(y1 * (x2 - x1) + (y2 - y1) * (x - x1), x2 - x1)

\* What the EWMA extrapolation can give: the smoothed value plus the
\* trend times the distance is a floating-point number of either sign and
\* any size; the values here go from below 0 to above every limit.
Estimates == (0 - 1)..(MaxValue + 1)

\* the boundary decay of audienceCount: the count times a factor between
\* 0 and 1, rounded
Decayed(v) == 0..v

\* the points collected for calculate_ewma_trend, from index i towards the
\* start (dir = -1) or the end (dir = 1) of the data: those that have the
\* key and lie within ewma_span_minutes of point i
EwmaPoints(d, i, dir) ==
    {j \in 1..Len(d) :
        /\ IF dir < 0 THEN j <= i ELSE j >= i
        /\ Has(d[j])
        /\ dir * (d[j].ts - d[i].ts) <= EwmaSpanMinutes}

\* the EWMA extrapolation to the right of the data or to the left;
\* calculate_ewma_trend gives None for fewer than two points
Ewma(t, d) ==
    LET i1 == P1Index(t, d)
        i2 == P2Index(t, d)
    IN  IF i1 # 0 /\ t > d[Len(d)].ts
        THEN IF /\ t - d[i1].ts <= MaxExtrapolationMinutes
                /\ Cardinality(EwmaPoints(d, FirstIndex(d, d[i1]), 0 - 1)) >= 2
             THEN {Some(v, "ewma") : v \in Estimates} ELSE {None}
        ELSE IF i2 # 0 /\ t < d[1].ts
        THEN IF /\ d[i2].ts - t <= MaxExtrapolationMinutes
                /\ Cardinality(EwmaPoints(d, FirstIndex(d, d[i2]), 1)) >= 2
             THEN {Some(v, "ewma") : v \in Estimates} ELSE {None}
        ELSE {None}

\* the boundary decay of audienceCount before the first and after the
\* last point of the data, from the first or last point that has the key
Decay(t, d) ==
    LET S == {i \in 1..Len(d) : Has(d[i])}
        first == SetMin(S)
        last == SetMax(S)
    IN  IF S = {} THEN {None}
        ELSE IF t < d[1].ts
        THEN IF d[first].ts - t <= AudienceExtrapolationMinutes
             THEN {Some(v, "decay") : v \in Decayed(d[first].val)}
             ELSE {None}
        ELSE IF t > d[Len(d)].ts
        THEN IF t - d[last].ts <= AudienceExtrapolationMinutes
             THEN {Some(v, "decay") : v \in Decayed(d[last].val)}
             ELSE {None}
        ELSE {None}

\* the estimates the branches can give for key k at time t, before the
\* clamp: exact match, linear interpolation, or extrapolation
Estimate(t, k, d) ==
    LET i1 == P1Index(t, d)
        i2 == P2Index(t, d)
    IN  IF i1 # 0 /\ d[i1].ts = t THEN {Some(d[i1].val, "exact")}
        ELSE IF i2 # 0 /\ d[i2].ts = t THEN {Some(d[i2].val, "exact")}
        ELSE IF i1 # 0 /\ i2 # 0 /\ d[i1].ts < d[i2].ts
        THEN {Some(v, "linear") : v \in Interpolate(d[i1].ts, d[i1].val,
                                                    d[i2].ts, d[i2].val, t)}
        ELSE IF i1 # 0 \/ i2 # 0
        THEN IF k = "audienceCount" /\ Decay(t, d) # {None}
             THEN Decay(t, d)
             ELSE Ewma(t, d)
        ELSE {None}

Max2(a, b) == IF a >= b THEN a ELSE b
Min2(a, b) == IF a <= b THEN a ELSE b

\* `if current_value < last_total_user_count: current_value =
\* last_total_user_count`
Floor(v, last) == IF v < last THEN last ELSE v

\* `max(0, current_value)`, the floor for totalUserCount, and
\* `min(default_max_value, current_value)`: the value before the upper
\* limit (the next last_total_user_count) and the value emitted
Raised(v, k, last) ==
    IF k = "totalUserCount" THEN Floor(Max2(0, v), last) ELSE Max2(0, v)

\* a clamp that applies the upper limit only
EmittedCapOnly(v, k, last, cap) == Min2(cap, v)

Emitted(v, k, last, cap) == Min2(cap, Raised(v, k, last))

\* the first time point of the loop: the start of the data less the
\* longer extrapolation distance, down to a multiple of the interval
GridStart(d) ==
    LET s == d[1].ts - Max2(MaxExtrapolationMinutes, AudienceExtrapolationMinutes)
    IN  s - (s % IntervalMinutes)

\* the last one: the end of the data plus that distance, up to a multiple
GridEnd(d) ==
    LET e == d[Len(d)].ts + Max2(MaxExtrapolationMinutes, AudienceExtrapolationMinutes)
    IN  IF e % IntervalMinutes = 0 THEN e
        ELSE e + (IntervalMinutes - (e % IntervalMinutes))

\* interpolate_data is called with sorted data and a limit
SeriesInit ==
    /\ SessionInit
    /\ clock = ClockOff
    /\ codec = CodecOff
    /\ prog = ProgOff
    /\ room = RoomOff
    /\ \E k \in TargetKeys, d \in Series, cap \in Caps :
       series = [stage |-> "called", key |-> k, data |-> d, cap |-> cap,
                 t |-> 0, last |-> 0, out |-> <<>>]

SeriesUnchanged == UNCHANGED <<sessionVars, clock, codec, prog, room>>

\* `if not data: return []`, and the set-up of the loop
SeriesStart ==
    /\ series.stage = "called"
    /\ series' = IF series.data = <<>>
                 THEN [series EXCEPT !.stage = "returned"]
                 ELSE [series EXCEPT !.stage = "loop",
                                     !.t = GridStart(series.data)]
    /\ SeriesUnchanged

\* one turn of `while current_time_point <= actual_end_time`: the key is
\* estimated and clamped, the entry is appended if it has a count, and
\* the time point moves on
SeriesPoint ==
    /\ series.stage = "loop" /\ series.t <= GridEnd(series.data)
    /\ \E e \in Estimate(series.t, series.key, series.data) :
       series' = [series EXCEPT
                    !.out = IF e.some
                            THEN Append(@, [ts |-> series.t, how |-> e.how,
                                            val |-> Emitted(e.v, series.key,
                                                            series.last, series.cap)])
                            ELSE @,
                    !.last = IF e.some /\ series.key = "totalUserCount"
                             THEN Raised(e.v, series.key, series.last)
                             ELSE @,
                    !.t = @ + IntervalMinutes]
    /\ SeriesUnchanged

\* the loop is over: `return interpolated_results`
SeriesReturn ==
    /\ series.stage = "loop" /\ series.t > GridEnd(series.data)
    /\ series' = [series EXCEPT !.stage = "returned"]
    /\ SeriesUnchanged

SeriesNext == SeriesStart \/ SeriesPoint \/ SeriesReturn

SeriesSpec == SeriesInit /\ [][SeriesNext]_vars

\* ------------------------------------------------------------- claims
\* the Receive Task is through with `frame`: it waits for the next
\* message, or it has ended
RxThrough == pc["rx"] \in {"recv", "done", "failed"}

\* `frame` is a binary message that decoded to an Envelope
Decoded == frame.type = "BINARY" /\ frame.decode = "ok"

\* the bytes of the two internal_ext strings of the model, written out
ExtBytes(ext) == IF ext = <<97>> THEN <<97>> ELSE <<195, 169>>

\* C1: for an inbound frame whose Envelope has need_ack = true, the ack is
\* handed to the transport before the handler of any SubMessage of that
\* Envelope begins: whenever a handler has been invoked for the frame, its
\* ack has been sent.
C1_AckBeforeHandlers ==
    (Decoded /\ frame.need_ack /\ invoked # <<>>) => acks # <<>>

C1_Witness ==
    /\ Decoded /\ frame.need_ack
    /\ Len(invoked) = 1 /\ Len(acks) = 1 /\ pending # <<>>

\* C2: for an inbound frame whose Envelope has need_ack = true, the
\* Receive Task hands exactly one ack frame to the transport, never two,
\* and none is missing once the ack stage is passed; the frame carries
\* payload_type "ack", the log_id of the inbound frame and the bytes of
\* the Envelope's internal_ext, whatever SubMessages the Envelope holds.
C2_ExactlyOneAck ==
    (Decoded /\ frame.need_ack) =>
        /\ Len(acks) <= 1
        /\ pc["rx"] \notin {"handle", "ack"} =>
              acks = << [log_id |-> frame.log_id, payload_type |-> "ack",
                         payload |-> ExtBytes(frame.internal_ext)] >>

C2_Witness ==
    /\ Decoded /\ frame.need_ack /\ frame.log_id = 8 /\ frame.internal_ext = <<233>>
    /\ Len(frame.messages_list) = 2
    /\ frame.messages_list[1].method \notin Handlers
    /\ pc["rx"] = "recv"
    /\ Len(acks) = 1 /\ Len(invoked) = 1

\* the Envelopes C3 is about: every method tag known, exactly one
\* SubMessage whose handler raises
AllKnown(f) == \A i \in 1..Len(f.messages_list) : f.messages_list[i].method \in Handlers
Raisers(f) == {i \in 1..Len(f.messages_list) : HandlerOutcome(f.messages_list[i]) = "raise"}
Closers(f) == {i \in 1..Len(f.messages_list) : HandlerOutcome(f.messages_list[i]) = "close"}
OneRaises == Decoded /\ AllKnown(frame) /\ Cardinality(Raisers(frame)) = 1

\* C3 as stated: of an Envelope with N SubMessages of known method tags,
\* exactly one of whose handlers raises, and whose dispatch has started,
\* all N handlers are invoked and exactly one error is logged by the time
\* the Receive Task is through with it.
C3_Original ==
    (OneRaises /\ looped /\ RxThrough) =>
        (Len(invoked) = Len(frame.messages_list) /\ errs = 1)

\* C3, amended: the same, for an Envelope that holds no status-3
\* WebcastControlMessage (whose handler closes the Session and so ends
\* the loop).
C3_FaultIsolation ==
    (OneRaises /\ Closers(frame) = {} /\ looped /\ RxThrough) =>
        (Len(invoked) = Len(frame.messages_list) /\ errs = 1)

C3_Witness ==
    /\ OneRaises /\ Closers(frame) = {} /\ looped /\ RxThrough
    /\ Len(frame.messages_list) = 2 /\ Raisers(frame) = {1}
    /\ Len(invoked) = 2 /\ errs = 1

\* C4: a binary message that cannot be decoded is logged and dropped, and
\* the Receive Task goes on: once through with it, the task has logged one
\* error and waits for the next message, with the transport open.
C4_DecodeErrorIsolated ==
    (frame.type = "BINARY" /\ frame.decode # "ok" /\ pc["rx"] # "handle") =>
        (errs = 1 /\ pc["rx"] # "failed")

\* C5: once a close() has returned, neither background task pings, sends
\* an ack or reads an inbound message.
C5_NoIOAfterClose == ~lateIO

C5_Witness ==
    /\ closeReturned > 0 /\ ~lateIO
    /\ pc["hb"] = "sleep" /\ nIn > 0

\* C6: when close() has returned, the Heartbeat Task and the Receive Task
\* have both terminated.
C6_CloseAwaitsTasks ==
    closeReturned > 0 => \A t \in Tasks : Terminated(t)

EndsRoom ==
    /\ Decoded /\ Len(frame.messages_list) = 1
    /\ HandlerOutcome(frame.messages_list[1]) = "close"

\* C8: once the Receive Task is through with a frame that decoded to one
\* status-3 WebcastControlMessage, the Session is Closing or Closed
\* (close() was called and the transport is closed), and no handler runs
\* for a later frame.
C8_ControlEndsSession ==
    /\ (EndsRoom /\ RxThrough) => (closeCalls > 0 /\ ws_closed)
    /\ selfClosedAt > 0 => nIn = selfClosedAt

\* C9: close() called from the control handler, on the Receive Task: the
\* call cancels the task that runs it and never waits for that task; while
\* the task is inside close() it can always take its next step (it holds
\* the event loop, or its cancellation is ready to be delivered); and the
\* transport's close is carried through: when the Receive Task has ended,
\* the transport is closed and its connection dropped.
C9_SelfCloseSafe ==
    /\ pc["rx"] \in {"close_ws", "close_hs", "close_wait_reply"} => cancelReq["rx"]
    /\ pc["rx"] # "close_wait_rx"
    /\ pc["rx"] \in {"close_ws", "close_hs"} => cur = "rx"
    /\ (pc["rx"] = "close_wait_reply" /\ cur = "none") => ENABLED RxCancelled
    /\ (selfClosedAt > 0 /\ Terminated("rx")) => (ws_closed /\ conn = "down")

C9_Witness ==
    /\ selfClosedAt > 0 /\ pc["rx"] = "done" /\ closeReturned = 0
    /\ extCloses = 0 /\ ws_closed /\ conn = "down"

\* C10: no background task ends with an unhandled exception.
C10_NoTaskFails == \A t \in Tasks : pc[t] # "failed"

\* C11: a heartbeat send that fails while the transport is open is logged
\* and the Heartbeat Task keeps running: as long as the transport is open
\* and nobody has called close(), a Heartbeat Task that logged an error
\* has not terminated.
C11_HeartbeatSurvivesError ==
    (hbErr /\ ~ws_closed /\ closeCalls = 0) => ~Terminated("hb")

\* C12: a failed send of the ack is logged inside the Receive Task, which
\* goes on: the Receive Task never ends with an exception on a frame whose
\* ack it has handed to the transport.
C12_AckFailureIsolated ==
    (Decoded /\ frame.need_ack /\ acks # <<>>) => pc["rx"] # "failed"

\* C13: when the transport handshake fails, new() fails and returns no
\* Session: its caller is left with the error, no Heartbeat Task and no
\* Receive Task exists, then or later, there is no connection, and nothing
\* was ever read, sent or closed.
C13_FailedOpenLeavesNothing ==
    pc["main"] = "open_failed" =>
        /\ tasks = <<>>
        /\ \A t \in Tasks : pc[t] = "absent" /\ ~cancelReq[t]
        /\ conn = "none" /\ ~ws_closed
        /\ nIn = 0 /\ closeCalls = 0 /\ ~hbErr

C13_Witness ==
    pc["main"] = "open_failed" /\ tasks = <<>> /\ cur = "none"

\* C14: from the moment new() has returned a Session, the Session holds
\* one transport connection and the two task handles, the Heartbeat Task
\* first and the Receive Task second, both of them scheduled; no step
\* changes the task list afterwards, and the connection is never made
\* again: it only goes from up to down.
C14_Opened == pc["main"] \notin {"init", "open_failed"}

C14_OneTransportTwoTasks ==
    /\ [](C14_Opened =>
            /\ tasks = TaskOrder /\ Len(tasks) = 2
            /\ \A t \in Tasks : pc[t] # "absent"
            /\ conn \in {"up", "down"})
    /\ [][C14_Opened =>
            /\ C14_Opened'
            /\ tasks' = tasks
            /\ conn' \in {conn, "down"}]_vars

C14_Witness ==
    /\ pc["main"] = "idle" /\ cur = "main" /\ closeCalls = 0
    /\ tasks = <<"hb", "rx">> /\ conn = "up"
    /\ pc["hb"] = "created" /\ pc["rx"] = "created"

\* a SubMessage whose method tag is in the dispatch table
Known(m) == m.method \in Handlers

\* the SubMessages of `frame` with a known method tag, in arrival order
KnownOf(f) == SelectSeq(f.messages_list, Known)

\* C15: a SubMessage whose method tag is not in the dispatch table causes
\* no handler invocation and no logged error, and does not keep the
\* SubMessages after it from being dispatched: every handler invoked is
\* one of a known method tag, every logged error is the raise of an invoked
\* handler, and once the Receive Task is through with an Envelope whose
\* dispatch has started, the handlers invoked are those of all its known
\* SubMessages (or of all up to a status-3 WebcastControlMessage, whose
\* handler closes the Session).
C15_UnknownMethodSkipped ==
    /\ \A i \in 1..Len(invoked) : invoked[i].method \in Handlers
    /\ errs = Cardinality({i \in 1..Len(invoked) : HandlerOutcome(invoked[i]) = "raise"})
    /\ (Decoded /\ looped /\ RxThrough) =>
          \/ invoked = KnownOf(frame)
          \/ /\ invoked # <<>>
             /\ HandlerOutcome(invoked[Len(invoked)]) = "close"
             /\ Len(invoked) <= Len(KnownOf(frame))
             /\ invoked = SubSeq(KnownOf(frame), 1, Len(invoked))

C15_Witness ==
    /\ Decoded /\ looped /\ pc["rx"] = "recv"
    /\ Len(frame.messages_list) = 2
    /\ frame.messages_list[1].method \notin Handlers
    /\ frame.messages_list[2].method \in Handlers
    /\ invoked = <<frame.messages_list[2]>> /\ errs = 0

\* C16: a handler that raises does not stop the Receive Task.  The task
\* never ends with an exception once the dispatch loop of a frame has
\* started; when it is through with an Envelope in which a handler raised,
\* with the transport open and no close() called, it waits for the next
\* message; and every Envelope that arrives after one in which a handler
\* raised is acked once when it asks for an ack, not acked when it does
\* not, and has the handlers of all its known SubMessages invoked (up to a
\* status-3 WebcastControlMessage).
C16_HandlerErrorIsolated ==
    /\ looped => pc["rx"] # "failed"
    /\ (Decoded /\ looped /\ errs > 0 /\ pending = <<>> /\ pc["rx"] # "dispatch"
          /\ ~ws_closed /\ closeCalls = 0) => pc["rx"] = "recv"
    /\ (raisedAt > 0 /\ nIn > raisedAt /\ Decoded) =>
          /\ (frame.need_ack /\ pc["rx"] \notin {"handle", "ack"}) => Len(acks) = 1
          /\ ~frame.need_ack => acks = <<>>
          /\ (looped /\ RxThrough) =>
                \/ invoked = KnownOf(frame)
                \/ /\ invoked # <<>>
                   /\ HandlerOutcome(invoked[Len(invoked)]) = "close"

C16_Witness ==
    /\ raisedAt = 1 /\ nIn = 2 /\ Decoded /\ frame.need_ack
    /\ pc["rx"] = "recv" /\ looped
    /\ Len(acks) = 1 /\ Len(invoked) = 2 /\ invoked = frame.messages_list

\* the SubMessages of `frame` the for loop has taken so far
Visited ==
    SubSeq(frame.messages_list, 1, Len(frame.messages_list) - Len(pending))

\* a SubMessage that is a well-formed status-3 WebcastControlMessage
EndsLive(m) ==
    m.method = "WebcastControlMessage" /\ m.valid /\ m.status = StatusEnded

\* C17: within one Envelope the handlers are invoked in the arrival order
\* of the SubMessages, one per known SubMessage taken by the loop, and the
\* awaited handler is over before the next one begins: while the control
\* handler is inside the close() it awaits, it is the last handler invoked
\* and its SubMessage the last one taken, and whenever the handler of a
\* status-3 WebcastControlMessage has been invoked its close() call has
\* been made.
C17_HandlersInOrder ==
    /\ looped =>
          /\ Len(pending) <= Len(frame.messages_list)
          /\ invoked = SelectSeq(Visited, Known)
    /\ pc["rx"] \in {"close_ws", "close_wait_rx", "close_hs", "close_wait_reply"} =>
          /\ invoked # <<>> /\ Visited # <<>>
          /\ EndsLive(invoked[Len(invoked)])
          /\ invoked[Len(invoked)] = Visited[Len(Visited)]
    /\ \A i \in 1..Len(invoked) :
          EndsLive(invoked[i]) => (selfClosedAt = nIn /\ closeCalls > 0)

C17_Witness ==
    /\ Decoded /\ looped /\ Len(frame.messages_list) = 2
    /\ EndsLive(frame.messages_list[1])
    /\ frame.messages_list[2].method = "WebcastMemberMessage"
    /\ invoked = frame.messages_list
    /\ closeReturned > 0 /\ selfClosedAt = nIn

\* C18: the Receive Task terminates only because the transport signalled
\* its close or an error, or because the task was cancelled: a Receive
\* Task that has terminated did not end with an exception, and either the
\* transport is closed or close() has been called.
C18_ReceiveEndsOnlyOnCloseOrCancel ==
    Terminated("rx") =>
        /\ pc["rx"] \in {"done", "cancelled"}
        /\ ws_closed \/ closeCalls > 0

\* C19: no heartbeat is handed to a transport that reports itself closed,
\* and once the transport reports itself closed the Heartbeat Task
\* eventually terminates, by its own loop test when nobody cancels it.
C19_HeartbeatStopsOnClosed ==
    /\ [](~closedPing)
    /\ [](Terminated("hb") /\ closeCalls = 0 => hbCancelledAt = "none")
    /\ (ws_closed ~> Terminated("hb"))

C19_Witness ==
    /\ ws_closed /\ closeCalls = 0
    /\ pc["hb"] = "done" /\ hbCancelledAt = "none" /\ ~hbErr /\ ~closedPing

\* C20: a Heartbeat Task that gets its CancelledError while it is
\* suspended, in its sleep or in its send, returns: it does not end with
\* an exception or as a cancelled task, it logs no error, and it has handed
\* no heartbeat to the transport since; and the CancelledError is what a
\* pending cancellation turns into, the task does nothing else before.
C20_CancelledHeartbeatEndsQuietly ==
    /\ hbCancelledAt \in {"ping", "sleep"} =>
          (pc["hb"] = "done" /\ ~hbErr /\ ~closedPing)
    /\ cancelReq["hb"] => pc["hb"] \in {"created", "ping", "sleep"}
    /\ (cancelReq["hb"] /\ cur = "none") => ENABLED HbCancelled

C20_Witness ==
    /\ hbCancelledAt = "ping" /\ pc["hb"] = "done" /\ ~hbErr
    /\ closeCalls > 0

\* C21: with the interval at 5 time units, the transport open and every
\* send succeeding at once, the number of heartbeats the Heartbeat Task
\* has sent at time T after its start is floor(T/5), give or take 1.
\* Whatever the sends take, the task is never more than one heartbeat
\* ahead of the clock, and it is behind by no more than the time it spent
\* suspended in its sends.
C21_HeartbeatRate ==
    /\ Interval = 5
    /\ clock.waited = 0 =>
          clock.pings - (clock.now \div 5) \in {-1, 0, 1}
    /\ clock.pings >= 1 => (clock.pings - 1) * Interval <= clock.now
    /\ clock.pings * Interval + clock.waited >= clock.now

C21_Witness ==
    /\ clock.waited = 0 /\ clock.now = 15 /\ clock.pings = 4
    /\ pc["hb"] = "sleep"

\* the Session is Closed: both background tasks have terminated and the
\* transport is closed
Closed == (\A t \in Tasks : Terminated(t)) /\ ws_closed

\* C22: after the owner has called close() on a Session, the Session
\* eventually is Closed, given that the event loop runs every ready task.
C22_CloseReachesClosed == (extCloses > 0) ~> Closed

C22_Witness ==
    /\ extCloses = 1 /\ closeReturned = 1 /\ selfClosedAt = 0
    /\ Closed /\ conn = "down"
    /\ hbCancelledAt = "sleep" /\ pc["rx"] = "done"

\* The Session State of the lifecycle, read off the Session: Connecting
\* until new() has returned, Closing once close() has been called or the
\* transport is closed, Closed when also both tasks have terminated.
SessionState ==
    IF pc["main"] \in {"init", "open_failed"} THEN "Connecting"
    ELSE IF Closed THEN "Closed"
    ELSE IF closeCalls > 0 \/ ws_closed THEN "Closing"
    ELSE "Open"

StateRank ==
    CASE SessionState = "Connecting" -> 0
      [] SessionState = "Open" -> 1
      [] SessionState = "Closing" -> 2
      [] SessionState = "Closed" -> 3

\* C23: the Session State only moves forward along Connecting, Open,
\* Closing, Closed, whatever arrives, fails or is called; and no step
\* taken by a Closed Session reads an inbound message, sends an ack,
\* builds a heartbeat or invokes a handler.
C23_StateMovesForward ==
    [][/\ StateRank' >= StateRank
       /\ Closed => /\ nIn' = nIn /\ acks' = acks
                    /\ invoked' = invoked /\ hbFrames' = hbFrames]_vars

C23_Witness ==
    /\ SessionState = "Closed" /\ closeReturned = 2
    /\ nIn = 2 /\ invoked # <<>> /\ acks # <<>> /\ hbFrames # {}

RxSuspended == pc["rx"] \in {"recv", "ack_drain", "close_wait_reply"}

C26_TextIsNoOp ==
    /\ [](frame.type = "TEXT" =>
            /\ invoked = <<>> /\ acks = <<>> /\ errs = 0 /\ ~looped
            /\ pending = <<>>
            /\ pc["rx"] \in {"recv", "done"} /\ cur # "rx")
    /\ [][(nIn' # nIn /\ frame'.type = "TEXT") =>
            /\ pc' = pc /\ cur' = cur /\ tasks' = tasks
            /\ ws_closed' = ws_closed /\ conn' = conn
            /\ cancelReq' = cancelReq /\ hbFrames' = hbFrames
            /\ hbErr' = hbErr /\ raisedAt' = raisedAt
            /\ UNCHANGED closeVars]_vars

C26_Witness ==
    /\ frame.type = "TEXT" /\ nIn = 2 /\ pc["rx"] = "recv"
    /\ ~ws_closed /\ closeCalls = 0 /\ pc["hb"] = "sleep"

\* C27: for the heartbeat frame and for every ack frame, parsing the
\* serialized bytes gives back the frame's log_id, payload_type and payload.
C27_FrameRoundTrip ==
    codec.stage = "parsed" =>
        /\ codec.out.ok
        /\ codec.out.log_id = codec.frame.log_id
        /\ codec.out.payload_type = codec.frame.payload_type
        /\ codec.out.payload = codec.frame.payload

\* an ack frame with a two-byte log id varint and a two-byte UTF-8
\* payload has been serialized to eight bytes and parsed back
C27_Witness ==
    /\ codec.stage = "parsed"
    /\ codec.frame = [log_id |-> 300, payload_type |-> "ack",
                      payload |-> <<195, 169>>]
    /\ codec.wire = <<16, 172, 2, 58, 3, 97, 99, 107, 66, 2, 195, 169>>
    /\ codec.out.log_id = 300

\* C28: every heartbeat is the same canned frame, with the two bytes "hb"
\* as payload and every other field at its default, whatever has been
\* received, however many ticks have passed and whatever the Session's state.
C28_HeartbeatIsCanned ==
    \A f \in hbFrames :
        /\ f.payload = <<104, 98>>
        /\ f.log_id = 0
        /\ f.payload_type = ""

\* a ping is on its way after two inbound messages, the second an Envelope
\* with an ack sent for it
C28_Witness ==
    /\ pc["hb"] = "ping" /\ hbFrames # {}
    /\ nIn = 2 /\ frame.type = "BINARY" /\ acks # <<>>

\* C29: inbound frames are processed strictly one after another.  The
\* Receive Task is at its read, where alone the next frame can be taken,
\* only when the frame before it is finished: a binary frame has decoded,
\* its ack (if asked for) has been sent, the loop has gone over all its
\* SubMessages and every known one has had its handler.  While the awaited
\* control handler has not completed, no frame is read, no ack is sent and
\* no handler is dispatched.
C29_FramesOneAtATime ==
    /\ (pc["rx"] = "recv" /\ nIn > 0 /\ frame.type = "BINARY") =>
          /\ frame.decode = "ok"
          /\ frame.need_ack => Len(acks) = 1
          /\ looped /\ pending = <<>>
          /\ invoked = KnownOf(frame)
    /\ pc["rx"] \in {"close_ws", "close_wait_rx", "close_hs", "close_wait_reply"} =>
          /\ ~ENABLED RxReceive
          /\ ~ENABLED RxAck
          /\ ~ENABLED RxDispatch

\* the control handler of the first frame is suspended in close() with a
\* SubMessage of its Envelope still to come and a second frame not yet read
C29_Witness ==
    /\ pc["rx"] = "close_wait_reply" /\ cur = "none"
    /\ nIn = 1 /\ Len(pending) = 1 /\ Len(invoked) = 1

\* C30: the SubMessages that follow a status-3 WebcastControlMessage in the
\* same Envelope are not dispatched: the handler of such a control message
\* is the last handler invoked for its Envelope.
C30_NothingAfterEndOfLive ==
    \A i \in 1..Len(invoked) : EndsLive(invoked[i]) => i = Len(invoked)

\* the Receive Task left its loop on a CLOSE or ERROR message of the
\* transport, and nobody has called close()
RxEndedBySignal ==
    /\ pc["rx"] = "done" /\ closeCalls = 0
    /\ frame.type \in {"CLOSE", "ERROR"}

\* C31: when the Receive Task has terminated on a close or error signal of
\* the transport, without close() having been called, the transport reports
\* itself closed and the Heartbeat Task eventually terminates as well.
C31_HeartbeatFollowsReceive ==
    /\ [](RxEndedBySignal => ws_closed)
    /\ (RxEndedBySignal ~> Terminated("hb"))

\* the Receive Task ended on an ERROR message after one Envelope, and the
\* Heartbeat Task, never cancelled, has left its loop
C31_Witness ==
    /\ RxEndedBySignal /\ frame.type = "ERROR" /\ nIn = 2
    /\ pc["hb"] = "done" /\ hbCancelledAt = "none" /\ hbFrames # {}

\* C32: for an inbound frame whose Envelope has need_ack = false no ack
\* frame is sent.  The acks handed to the transport since a frame was read
\* are at most one, and there is one only for a frame that decoded to an
\* Envelope with need_ack = true; so the acks sent never outnumber the
\* frames decoded with need_ack = true.
C32_NoAckUnlessAsked ==
    /\ Len(acks) <= 1
    /\ acks # <<>> => (Decoded /\ frame.need_ack)
    /\ (frame.type = "BINARY" /\ ~frame.need_ack) => acks = <<>>

\* the second frame, an Envelope with need_ack = false and two known
\* SubMessages, has been dispatched in full and no ack was sent for it
C32_Witness ==
    /\ Decoded /\ ~frame.need_ack /\ nIn = 2
    /\ pc["rx"] = "recv" /\ looped /\ Len(invoked) = 2 /\ acks = <<>>

\* C33: close() is called from inside the Receive Task only by the control
\* handler of a well-formed status-3 WebcastControlMessage.  If the Receive
\* Task has called close(), such a handler was invoked for the frame in
\* hand; every close() call is the owner's or that handler's; and as long
\* as nobody has called close(), no task has a cancellation pending or
\* delivered, and the transport is closed only by its own CLOSE or ERROR
\* message.
C33_OnlyStatusEndedCloses ==
    /\ callNo["rx"] > 0 =>
          /\ selfClosedAt > 0
          /\ \E i \in 1..Len(invoked) : EndsLive(invoked[i])
    /\ selfClosedAt > 0 => callNo["rx"] > 0
    /\ extCloses = 0 /\ (\A i \in 1..Len(invoked) : ~EndsLive(invoked[i]))
          => closeCalls = 0
    /\ closeCalls = 0 =>
          /\ \A t \in Tasks : ~cancelReq[t] /\ pc[t] # "cancelled"
          /\ hbCancelledAt = "none"
          /\ ws_closed => frame.type \in {"CLOSE", "ERROR"}

\* the handlers of a status-2 control message and of a member message
\* have run for the second frame, and the Session is open as before
C33_Witness ==
    /\ nIn = 2 /\ pc["rx"] = "recv" /\ Len(invoked) = 2
    /\ invoked[1].method = "WebcastControlMessage" /\ invoked[1].status = 2
    /\ invoked[2].method = "WebcastMemberMessage"
    /\ closeCalls = 0 /\ ~ws_closed /\ conn = "up"
    /\ \A t \in Tasks : ~cancelReq[t] /\ ~Terminated(t)

\* main_task has got as far as asking for the live room
PastTrigger == prog.main \in {"new", "ws", "running"}

\* C34: in watch mode main_task creates no live-room connection and no
\* websocket Session, and does not set out to, before ntfy_listener has
\* set the trigger event: before a notification has been received that
\* names as live a streamer whose name starts with the target's.
C34_NothingBeforeTrigger ==
    prog.watch =>
        /\ (PastTrigger \/ prog.rooms > 0 \/ prog.sessions > 0) => prog.triggers > 0
        /\ prog.triggers = 0 => (~prog.event /\ ~prog.woken)
        /\ prog.triggers <= prog.lines
        /\ prog.triggers > 0 =>
              (Len(prog.by) >= 2 /\ SubSeq(prog.by, 1, 2) = TargetStreamer)

\* after two lines that did not trigger, the third named the target as
\* live, and main_task has its Session
C34_Witness ==
    /\ prog.watch /\ prog.lines = 3 /\ prog.triggers = 1
    /\ prog.main = "running" /\ prog.rooms = 1 /\ prog.sessions = 1

\* C35: in one run at most one live room and one websocket Session are
\* created, however many trigger notifications arrive.
C35_AtMostOneSession ==
    prog.sessions <= 1 /\ prog.rooms <= 1

\* two more triggers have arrived since main_task started its Session: the
\* event is set again, and main_task is in its loop of sleeps
C35_Witness ==
    /\ prog.watch /\ prog.triggers = 3 /\ prog.event
    /\ prog.main = "running" /\ prog.naps = 2 /\ prog.sessions = 1

\* C36: if DoyinLiveRoom.new fails at a step of the HTTP handshake (a
\* status other than 200, no room id in the page, or a transport error),
\* the HTTP session it holds is closed when the error reaches the caller,
\* a session the caller passed in included; if new() returns the instance,
\* the session is open.
C36_SessionClosedOnFailure ==
    /\ room.at = "raised" =>
          /\ room.session = "closed"
          /\ ~Ok(room.base) \/ ~Ok(room.target) \/ room.text # "found"
    /\ room.at = "returned" =>
          /\ room.session = "open"
          /\ Ok(room.base) /\ Ok(room.target) /\ room.text = "found"

\* the caller passed an open session in, the room page came back with
\* 404, and the error has reached the caller
C36_Witness ==
    /\ room.passed = "open" /\ room.at = "raised"
    /\ room.base = Response(200) /\ room.target = Response(404)
    /\ room.session = "closed"

\* the totalUserCount values of the output, in the order of the output
TotalsOut ==
    IF series.key = "totalUserCount"
    THEN [i \in 1..Len(series.out) |-> series.out[i].val]
    ELSE <<>>

\* C37: in the output of interpolate_data the totalUserCount values of
\* successive output points are all greater than or equal to 0 and
\* strictly increasing, for every input series and every default_max_value.
C37_TotalStrictlyIncreasing ==
    /\ \A i \in 1..Len(TotalsOut) : TotalsOut[i] >= 0
    /\ \A i \in 1..(Len(TotalsOut) - 1) : TotalsOut[i] < TotalsOut[i + 1]

====
